---- MODULE Spec2Model ----
(***************************************************************************)
(* Model of retry-retry (src/retry-retry.js): the async function           *)
(* retry(task, params), its reserved markers Retry and LimitReached, the   *)
(* clock timeNowMs() and the setTimeout pause between two tries.           *)
(*                                                                         *)
(* One retry() call is a sequential process that yields at two places:     *)
(* `await task()` (line 93) and `await new Promise(... setTimeout ...)`    *)
(* (line 116).  Everything between two awaits runs synchronously, so it is *)
(* one action.  Time is counted in whole ticks of the clock.               *)
(***************************************************************************)
EXTENDS Integers, Sequences, FiniteSets, TLC

(***************************************************************************)
(* Bounds of the model.                                                    *)
(***************************************************************************)
MaxPauseMs == 2        \* largest params.pauseMs tried
MaxTries == 3          \* largest params.maxTries tried
MaxTotalTimeMs == 3    \* largest params.maxTotalTimeMs tried
MaxTaskMs == 1         \* longest duration of one task attempt
MaxJitterMs == 1       \* longest overshoot of a setTimeout timer

\* tryIdx is a JS number: tryIdx++ stops changing it at 2^53.  IdxCap is the
\* model's 2^53; it is larger than every maxTries the model tries.  The
\* counters the model keeps for the claims stop at the same value.
IdxCap == MaxTries + 2
\* The clock stops at ClockCap, which stands for "ClockCap or later"; it is
\* later than every time limit can still allow a pause.
ClockCap == MaxTotalTimeMs + MaxTaskMs + 2

Min(a, b) == IF a < b THEN a ELSE b
Max(a, b) == IF a > b THEN a ELSE b
Inc(n) == Min(IdxCap, n + 1)

(***************************************************************************)
(* Values.  Every value a promise settles with is a string here; the two   *)
(* markers are compared by identity in the code, by name in the model.     *)
(***************************************************************************)
Retry == "Retry"                                   \* line 35
LimitReached == "LimitReached"                     \* line 37
TaskNotFunction == "Parameter task must be a function."   \* line 78
AppError == "E1"                \* an application error of the task
GiveUp == "I am giving up!"     \* README's errorOnLimit value
NoValue == "none"

TaskValues == {"v42", "v0"}                \* values a task resolves with
TaskErrors == {Retry, AppError, LimitReached}   \* values a task rejects with

Resolved(v) == [kind |-> "resolved", value |-> v]
Rejected(e) == [kind |-> "rejected", value |-> e]
Pending == [kind |-> "pending", value |-> NoValue]

TaskResults == {Resolved(v) : v \in TaskValues} \cup {Rejected(e) : e \in TaskErrors}

(***************************************************************************)
(* params: a JS object, modelled as a function whose domain is the set of  *)
(* keys the caller supplied.                                               *)
(***************************************************************************)
NoParams == [k \in {} |-> 0]
Opt(k, S) == {NoParams} \cup {k :> v : v \in S}

RetryOnPredicates == {"any", "onAppError"}   \* e => true, e => e === 'E1'
\* every default spelled out: pauseMs 0, maxTries 0, maxTotalTimeMs 0,
\* retryStrategy 'linear', retryOn e => e === retry.Retry
ExplicitDefaults ==
  ("pauseMs" :> 0) @@ ("maxTries" :> 0) @@ ("maxTotalTimeMs" :> 0)
    @@ ("retryStrategy" :> "linear") @@ ("retryOn" :> "onRetry")
RetryStrategies == {"linear", "exponential", "custom"}

ParamsSet ==
  { a @@ b @@ c @@ d @@ e @@ f :
      a \in Opt("pauseMs", -1 .. MaxPauseMs),
      b \in Opt("maxTries", -1 .. MaxTries),
      c \in Opt("maxTotalTimeMs", {-1, 0} \cup (MaxTotalTimeMs - 1 .. MaxTotalTimeMs)),
      d \in Opt("retryOn", RetryOnPredicates),
      e \in Opt("retryStrategy", RetryStrategies),
      f \in Opt("errorOnLimit", {GiveUp}) }

Has(p, k) == k \in DOMAIN p

\* The caller's predicates and strategy function (inputs of the call).
ApplyPredicate(name, e) ==
  IF name = "any" THEN TRUE
  ELSE IF name = "onRetry" THEN e = Retry
  ELSE e = AppError
CustomStrategy(numTries) == 2 - numTries

(***************************************************************************)
(* The pieces of retry() that decide something, as the code computes them. *)
(***************************************************************************)
\* `|| 1` for `|| 0`: an absent number defaults to 1
UnpackDefaultOne(p, k) == IF Has(p, k) THEN Max(0, p[k]) ELSE 1
\* params.k || 0 without Math.max(0, ...), as in the earlier variant of the code
UnpackNoClamp(p, k) == IF Has(p, k) THEN p[k] ELSE 0

\* lines 81-83: Math.max(0, params.k) || 0 (Math.max(0, undefined) is NaN,
\* and NaN || 0 is 0).
Unpack(p, k) == IF Has(p, k) THEN Max(0, p[k]) ELSE 0
pauseMs(p) == Unpack(p, "pauseMs")
maxTries(p) == Unpack(p, "maxTries")
maxTotalTimeMs(p) == Unpack(p, "maxTotalTimeMs")

\* a retryOn that is never consulted: `if (!retryOn)` instead of `if (!retryOn(error))`
retryOnNotCalled(p, e) == TRUE
\* a default retryOn that does not recognise the Retry marker
retryOnNoDefault(p, e) == IF Has(p, "retryOn") THEN ApplyPredicate(p["retryOn"], e) ELSE FALSE

\* a retryOn that ignores params.retryOn: always e => e === Retry
retryOnIgnoresParams(p, e) == e = Retry

\* lines 84 and 95: params.retryOn || (e => e === Retry), applied to error.
retryOn(p, e) == IF Has(p, "retryOn") THEN ApplyPredicate(p["retryOn"], e) ELSE e = Retry

\* line 85: params.retryStrategy || 'linear'
retryStrategy(p) == IF Has(p, "retryStrategy") THEN p["retryStrategy"] ELSE "linear"

\* the loop condition with <= for <
LoopCondOffByOne(p, i) == maxTries(p) = 0 \/ i <= maxTries(p)
\* the loop condition with >= for == in its first half
LoopCondNoLimit(p, i) == maxTries(p) >= 0 \/ i < maxTries(p)

\* the loop condition without the `maxTries == 0 ||` of line 88
LoopCondZeroIsALimit(p, i) == i < maxTries(p)

\* line 88: the loop condition, maxTries == 0 || tryIdx < maxTries
LoopCond(p, i) == maxTries(p) = 0 \/ i < maxTries(p)

\* the exponential pause doubled from the first retry on: 2^(i+1) * pauseMs
actualPauseMsDoubledFirst(p, i) ==
  IF retryStrategy(p) = "linear" THEN pauseMs(p)
  ELSE IF retryStrategy(p) = "exponential" THEN (2 ^ (i + 1)) * pauseMs(p)
  ELSE Max(0, CustomStrategy(i + 1))
\* the custom strategy called with tryIdx instead of tryIdx + 1
actualPauseMsZeroBased(p, i) ==
  IF retryStrategy(p) = "linear" THEN pauseMs(p)
  ELSE IF retryStrategy(p) = "exponential" THEN (2 ^ i) * pauseMs(p)
  ELSE Max(0, CustomStrategy(i))
\* a linear pause that grows with the number of tries: (i + 1) * pauseMs
actualPauseMsGrowing(p, i) ==
  IF retryStrategy(p) = "linear" THEN (i + 1) * pauseMs(p)
  ELSE IF retryStrategy(p) = "exponential" THEN (2 ^ i) * pauseMs(p)
  ELSE Max(0, CustomStrategy(i + 1))
\* the custom strategy's result used without Math.max(0, ...)
actualPauseMsNoClamp(p, i) ==
  IF retryStrategy(p) = "linear" THEN pauseMs(p)
  ELSE IF retryStrategy(p) = "exponential" THEN (2 ^ i) * pauseMs(p)
  ELSE CustomStrategy(i + 1)

\* lines 102-105: the pause after the try with 0-based index i
actualPauseMs(p, i) ==
  IF retryStrategy(p) = "linear" THEN pauseMs(p)
  ELSE IF retryStrategy(p) = "exponential" THEN (2 ^ i) * pauseMs(p)
  ELSE Max(0, CustomStrategy(i + 1))

\* the time limit check without the pause: elapsedTimeMs > maxTotalTimeMs
TimeLimitHitNoPause(p, elapsedTimeMs, pause) ==
  maxTotalTimeMs(p) > 0 /\ elapsedTimeMs > maxTotalTimeMs(p)
\* the time limit check with >= for >
TimeLimitHitAtEqual(p, elapsedTimeMs, pause) ==
  maxTotalTimeMs(p) > 0 /\ elapsedTimeMs + pause >= maxTotalTimeMs(p)

\* the time limit check comparing the pause alone with the limit
TimeLimitHitPauseOnly(p, elapsedTimeMs, pause) ==
  maxTotalTimeMs(p) > 0 /\ pause > maxTotalTimeMs(p)

\* the time limit check counting the pause twice
TimeLimitHitPauseTwice(p, elapsedTimeMs, pause) ==
  maxTotalTimeMs(p) > 0 /\ elapsedTimeMs + 2 * pause > maxTotalTimeMs(p)

\* lines 108-110: the time limit check made before the pause
TimeLimitHit(p, elapsedTimeMs, pause) ==
  maxTotalTimeMs(p) > 0 /\ elapsedTimeMs + pause > maxTotalTimeMs(p)

\* lines 111 and 119: what retry() throws when a limit is reached
LimitError(p) == LimitReached

\* `await task(); return` for `return await task()`
ReturnNothing(v) == NoValue
\* line 93: `return await task()` hands the task's value on
ReturnValue(v) == v
\* `throw { timeout: false, error }` for `throw error`
ThrownErrorWrapped(e) == "wrapped"
\* line 96: `throw error` hands the task's error on
ThrownError(e) == e

\* line 78: typeof task === 'function'
IsFunction(t) == t = "function"

\* JSDoc lines 46-49 and 60-63: the rejections the caller wants retried
Retryable(p, e) == IF Has(p, "retryOn") THEN ApplyPredicate(p["retryOn"], e) ELSE e = Retry

(***************************************************************************)
(* State.                                                                  *)
(***************************************************************************)
Calls == {1, 2}

VARIABLES
  callers,        \* the calls of retry() the client makes
  now,            \* the clock timeNowMs() reads
  pc,             \* where each call is: idle, task (line 93), pause (line 116), done
  task,           \* each call's task argument: "function" or "notFunction"
  params,         \* each call's params argument
  tryIdx,         \* the loop counter of line 88
  startTimeMs,    \* line 87
  timerDue,       \* when the setTimeout of line 116 is due
  outcome,        \* how the promise returned by retry() settled
  exit,           \* the line through which the call left retry()
  numTries,       \* how many times the call has invoked its task
  numRetrySignals,\* how many attempts settled with a rejection the caller wants retried
  lastResult,     \* how the latest attempt settled
  pauses,         \* the durations passed to setTimeout, in order
  clockRead,      \* whether the call has read the clock
  inFlight        \* how many promises returned by task() have not settled yet

vars == <<callers, now, pc, task, params, tryIdx, startTimeMs, timerDue, outcome,
          exit, numTries, numRetrySignals, lastResult, pauses, clockRead, inFlight>>

InitCall ==
  /\ now = 0
  /\ pc = [c \in Calls |-> "idle"]
  /\ tryIdx = [c \in Calls |-> 0]
  /\ startTimeMs = [c \in Calls |-> 0]
  /\ timerDue = [c \in Calls |-> 0]
  /\ outcome = [c \in Calls |-> Pending]
  /\ exit = [c \in Calls |-> "none"]
  /\ numTries = [c \in Calls |-> 0]
  /\ numRetrySignals = [c \in Calls |-> 0]
  /\ lastResult = [c \in Calls |-> Pending]
  /\ pauses = [c \in Calls |-> << >>]
  /\ clockRead = [c \in Calls |-> FALSE]
  /\ inFlight = [c \in Calls |-> 0]

\* One call of retry(), with any task argument and any params.
Init ==
  /\ callers = {1}
  /\ task \in {[c \in Calls |-> IF c = 1 THEN t ELSE "function"] : t \in {"function", "notFunction"}}
  /\ params \in {[c \in Calls |-> IF c = 1 THEN p ELSE NoParams] : p \in ParamsSet}
  /\ InitCall

(***************************************************************************)
(* Leaving retry().                                                        *)
(***************************************************************************)
Settle(c, o, line) ==
  /\ pc' = [pc EXCEPT ![c] = "done"]
  /\ outcome' = [outcome EXCEPT ![c] = o]
  /\ exit' = [exit EXCEPT ![c] = line]

\* line 88 with tryIdx = i, then line 93's call of task() or line 119
LoopHead(c, i) ==
  IF LoopCond(params[c], i)
    THEN /\ pc' = [pc EXCEPT ![c] = "task"]
         /\ numTries' = [numTries EXCEPT ![c] = Inc(@)]
         /\ inFlight' = [inFlight EXCEPT ![c] = @ + 1]
         /\ UNCHANGED <<outcome, exit>>
    ELSE /\ Settle(c, Rejected(LimitError(params[c])), "throw119")
         /\ UNCHANGED <<numTries, inFlight>>

(***************************************************************************)
(* Actions.                                                                *)
(***************************************************************************)
\* the check of line 78 placed after line 87
CallInvalidLate(c) ==
  /\ c \in callers
  /\ pc[c] = "idle"
  /\ ~IsFunction(task[c])
  /\ clockRead' = [clockRead EXCEPT ![c] = TRUE]
  /\ Settle(c, Rejected(TaskNotFunction), "throw78")
  /\ UNCHANGED <<callers, now, task, params, tryIdx, startTimeMs, timerDue,
                 numTries, numRetrySignals, lastResult, pauses, inFlight>>

\* retry(task, params) with a task that is not a function: line 78
CallInvalid(c) ==
  /\ c \in callers
  /\ pc[c] = "idle"
  /\ ~IsFunction(task[c])
  /\ Settle(c, Rejected(TaskNotFunction), "throw78")
  /\ UNCHANGED <<callers, now, task, params, tryIdx, startTimeMs, timerDue,
                 numTries, numRetrySignals, lastResult, pauses, clockRead, inFlight>>

\* tryIdx kept in a variable of the module, shared by all calls, instead of
\* the `let` of line 88
CallStartSharedTryIdx(c) ==
  /\ c \in callers
  /\ pc[c] = "idle"
  /\ IsFunction(task[c])
  /\ startTimeMs' = [startTimeMs EXCEPT ![c] = now]
  /\ clockRead' = [clockRead EXCEPT ![c] = TRUE]
  /\ tryIdx' = [k \in Calls |-> 0]
  /\ LoopHead(c, 0)
  /\ UNCHANGED <<callers, now, task, params, timerDue, numRetrySignals,
                 lastResult, pauses>>

\* retry(task, params): lines 78-93, up to the first await
CallStart(c) ==
  /\ c \in callers
  /\ pc[c] = "idle"
  /\ IsFunction(task[c])
  /\ startTimeMs' = [startTimeMs EXCEPT ![c] = now]
  /\ clockRead' = [clockRead EXCEPT ![c] = TRUE]
  /\ tryIdx' = [tryIdx EXCEPT ![c] = 0]
  /\ LoopHead(c, 0)
  /\ UNCHANGED <<callers, now, task, params, timerDue, numRetrySignals,
                 lastResult, pauses>>

\* the time check of lines 108-113 applied to a resolved attempt as well
TaskResolveChecksTime(c, v, d) ==
  /\ pc[c] = "task"
  /\ now' = Min(ClockCap, now + d)
  /\ lastResult' = [lastResult EXCEPT ![c] = Resolved(v)]
  /\ inFlight' = [inFlight EXCEPT ![c] = @ - 1]
  /\ IF TimeLimitHit(params[c], now' - startTimeMs[c], 0)
       THEN Settle(c, Rejected(LimitError(params[c])), "throw111")
       ELSE Settle(c, Resolved(ReturnValue(v)), "return93")
  /\ UNCHANGED <<callers, task, params, tryIdx, startTimeMs, timerDue, numTries,
                 numRetrySignals, pauses, clockRead>>

\* the task's promise resolves with v after d ticks: line 93 returns
TaskResolve(c, v, d) ==
  /\ pc[c] = "task"
  /\ now' = Min(ClockCap, now + d)
  /\ lastResult' = [lastResult EXCEPT ![c] = Resolved(v)]
  /\ inFlight' = [inFlight EXCEPT ![c] = @ - 1]
  /\ Settle(c, Resolved(ReturnValue(v)), "return93")
  /\ UNCHANGED <<callers, task, params, tryIdx, startTimeMs, timerDue, numTries,
                 numRetrySignals, pauses, clockRead>>

\* line 116 without its await: the timer is set and the loop goes straight on
\* to tryIdx++ and the next task()
TaskRejectPauseNotAwaited(c, e, d) ==
  /\ pc[c] = "task"
  /\ now' = Min(ClockCap, now + d)
  /\ lastResult' = [lastResult EXCEPT ![c] = Rejected(e)]
  /\ numRetrySignals' = [numRetrySignals EXCEPT ![c] =
                           IF Retryable(params[c], e) THEN Inc(@) ELSE @]
  /\ IF ~retryOn(params[c], e)
       THEN /\ Settle(c, Rejected(ThrownError(e)), "throw96")
            /\ inFlight' = [inFlight EXCEPT ![c] = @ - 1]
            /\ UNCHANGED <<timerDue, pauses, clockRead, tryIdx, numTries>>
       ELSE LET pause == actualPauseMs(params[c], tryIdx[c])
                elapsedTimeMs == now' - startTimeMs[c]
            IN  IF TimeLimitHit(params[c], elapsedTimeMs, pause)
                  THEN /\ Settle(c, Rejected(LimitError(params[c])), "throw111")
                       /\ inFlight' = [inFlight EXCEPT ![c] = @ - 1]
                       /\ UNCHANGED <<timerDue, pauses, tryIdx, numTries>>
                       /\ clockRead' = [clockRead EXCEPT ![c] = TRUE]
                  ELSE /\ tryIdx' = [tryIdx EXCEPT ![c] = Inc(@)]
                       /\ IF LoopCond(params[c], Inc(tryIdx[c]))
                            THEN /\ numTries' = [numTries EXCEPT ![c] = Inc(@)]
                                 /\ UNCHANGED <<pc, outcome, exit, inFlight>>
                            ELSE /\ Settle(c, Rejected(LimitError(params[c])), "throw119")
                                 /\ inFlight' = [inFlight EXCEPT ![c] = @ - 1]
                                 /\ UNCHANGED numTries
                       /\ timerDue' = [timerDue EXCEPT ![c] = Min(ClockCap, now' + pause)]
                       /\ pauses' = [pauses EXCEPT ![c] =
                                       IF Len(@) < IdxCap THEN Append(@, pause) ELSE @]
                       /\ clockRead' = [clockRead EXCEPT ![c] =
                                          @ \/ maxTotalTimeMs(params[c]) > 0]
  /\ UNCHANGED <<callers, task, params, startTimeMs>>

\* the tries limit looked at before the pause: after the last permitted try
\* has failed retryably LimitReached is thrown at once, without a pause
TaskRejectNoPauseAfterLastTry(c, e, d) ==
  /\ pc[c] = "task"
  /\ now' = Min(ClockCap, now + d)
  /\ lastResult' = [lastResult EXCEPT ![c] = Rejected(e)]
  /\ inFlight' = [inFlight EXCEPT ![c] = @ - 1]
  /\ numRetrySignals' = [numRetrySignals EXCEPT ![c] =
                           IF Retryable(params[c], e) THEN Inc(@) ELSE @]
  /\ IF ~retryOn(params[c], e)
       THEN /\ Settle(c, Rejected(ThrownError(e)), "throw96")
            /\ UNCHANGED <<timerDue, pauses, clockRead>>
       ELSE LET pause == actualPauseMs(params[c], tryIdx[c])
                elapsedTimeMs == now' - startTimeMs[c]
            IN  IF ~LoopCond(params[c], Inc(tryIdx[c]))
                  THEN /\ Settle(c, Rejected(LimitError(params[c])), "throw119")
                       /\ UNCHANGED <<timerDue, pauses, clockRead>>
                  ELSE IF TimeLimitHit(params[c], elapsedTimeMs, pause)
                  THEN /\ Settle(c, Rejected(LimitError(params[c])), "throw111")
                       /\ UNCHANGED <<timerDue, pauses>>
                       /\ clockRead' = [clockRead EXCEPT ![c] = TRUE]
                  ELSE /\ pc' = [pc EXCEPT ![c] = "pause"]
                       /\ timerDue' = [timerDue EXCEPT ![c] = Min(ClockCap, now' + pause)]
                       /\ pauses' = [pauses EXCEPT ![c] =
                                       IF Len(@) < IdxCap THEN Append(@, pause) ELSE @]
                       /\ clockRead' = [clockRead EXCEPT ![c] =
                                          @ \/ maxTotalTimeMs(params[c]) > 0]
                       /\ UNCHANGED <<outcome, exit>>
  /\ UNCHANGED <<callers, task, params, tryIdx, startTimeMs, numTries>>

\* the task's promise rejects with e after d ticks: lines 94-116
TaskReject(c, e, d) ==
  /\ pc[c] = "task"
  /\ now' = Min(ClockCap, now + d)
  /\ lastResult' = [lastResult EXCEPT ![c] = Rejected(e)]
  /\ inFlight' = [inFlight EXCEPT ![c] = @ - 1]
  /\ numRetrySignals' = [numRetrySignals EXCEPT ![c] =
                           IF Retryable(params[c], e) THEN Inc(@) ELSE @]
  /\ IF ~retryOn(params[c], e)
       THEN /\ Settle(c, Rejected(ThrownError(e)), "throw96")
            /\ UNCHANGED <<timerDue, pauses, clockRead>>
       ELSE LET pause == actualPauseMs(params[c], tryIdx[c])
                elapsedTimeMs == now' - startTimeMs[c]
            IN  IF TimeLimitHit(params[c], elapsedTimeMs, pause)
                  THEN /\ Settle(c, Rejected(LimitError(params[c])), "throw111")
                       /\ UNCHANGED <<timerDue, pauses>>
                       /\ clockRead' = [clockRead EXCEPT ![c] = TRUE]
                  ELSE /\ pc' = [pc EXCEPT ![c] = "pause"]
                       /\ timerDue' = [timerDue EXCEPT ![c] = Min(ClockCap, now' + pause)]
                       /\ pauses' = [pauses EXCEPT ![c] =
                                       IF Len(@) < IdxCap THEN Append(@, pause) ELSE @]
                       /\ clockRead' = [clockRead EXCEPT ![c] =
                                          @ \/ maxTotalTimeMs(params[c]) > 0]
                       /\ UNCHANGED <<outcome, exit>>
  /\ UNCHANGED <<callers, task, params, tryIdx, startTimeMs, numTries>>

\* the loop of line 88 without its tryIdx++
TimerFireNoIncrement(c, j) ==
  /\ pc[c] = "pause"
  /\ now' = Min(ClockCap, Max(now, timerDue[c]) + j)
  /\ LoopHead(c, tryIdx[c])
  /\ UNCHANGED <<callers, task, params, tryIdx, startTimeMs, timerDue,
                 numRetrySignals, lastResult, pauses, clockRead>>

\* the timer of line 116 fires j ticks after it is due: tryIdx++, lines 88-93
TimerFire(c, j) ==
  /\ pc[c] = "pause"
  /\ now' = Min(ClockCap, Max(now, timerDue[c]) + j)
  /\ tryIdx' = [tryIdx EXCEPT ![c] = Inc(@)]
  /\ LoopHead(c, tryIdx'[c])
  /\ UNCHANGED <<callers, task, params, startTimeMs, timerDue, numRetrySignals,
                 lastResult, pauses, clockRead>>

Next ==
  \/ \E c \in Calls : CallInvalid(c)
  \/ \E c \in Calls : CallStart(c)
  \/ \E c \in Calls, v \in TaskValues, d \in 0 .. MaxTaskMs : TaskResolve(c, v, d)
  \/ \E c \in Calls, e \in TaskErrors, d \in 0 .. MaxTaskMs : TaskReject(c, e, d)
  \/ \E c \in Calls, j \in 0 .. MaxJitterMs : TimerFire(c, j)

Spec == Init /\ [][Next]_vars

\* The event loop runs every continuation that is ready: a call made is
\* entered, a task's promise settles (the claims assume it), a timer that was
\* set fires.  Time passes while a task runs: as long as the clock has not
\* reached ClockCap, some attempt takes at least one tick.
TaskSettles(c) ==
  \/ \E v \in TaskValues, d \in 0 .. MaxTaskMs : TaskResolve(c, v, d)
  \/ \E e \in TaskErrors, d \in 0 .. MaxTaskMs : TaskReject(c, e, d)
TaskTakesTime(c) == TaskSettles(c) /\ now' > now

Fairness ==
  \A c \in Calls :
    /\ WF_vars(CallInvalid(c) \/ CallStart(c))
    /\ WF_vars(TaskSettles(c))
    /\ WF_vars(\E j \in 0 .. MaxJitterMs : TimerFire(c, j))
    /\ SF_vars(TaskTakesTime(c))

\* One call of retry() with any task argument and params whose numbers are
\* absent or positive (absent, negative and 0 are unpacked alike).
FairParamsSet ==
  { a @@ b @@ c @@ d @@ e :
      a \in Opt("pauseMs", 1 .. MaxPauseMs),
      b \in Opt("maxTries", 1 .. MaxTries),
      c \in Opt("maxTotalTimeMs", MaxTotalTimeMs - 1 .. MaxTotalTimeMs),
      d \in Opt("retryOn", RetryOnPredicates),
      e \in Opt("retryStrategy", RetryStrategies) }

FairInit ==
  /\ callers = {1}
  /\ task \in {[c \in Calls |-> IF c = 1 THEN t ELSE "function"] : t \in {"function", "notFunction"}}
  /\ params \in {[c \in Calls |-> IF c = 1 THEN p ELSE NoParams] : p \in FairParamsSet}
  /\ InitCall

FairSpec == FairInit /\ [][Next]_vars /\ Fairness

\* Two calls of retry() with tasks of the same kind: call 1 without params,
\* call 2 with every default spelled out.
DefaultsInit ==
  /\ callers = {1, 2}
  /\ task \in {[c \in Calls |-> t] : t \in {"function", "notFunction"}}
  /\ params = [c \in Calls |-> IF c = 1 THEN NoParams ELSE ExplicitDefaults]
  /\ InitCall

DefaultsSpec == DefaultsInit /\ [][Next]_vars

\* Two calls of retry() running interleaved, with different params; the
\* second may be given a task that is not a function.
ConcParams1 ==
  { ("pauseMs" :> 1) @@ ("maxTries" :> 2),
    ("pauseMs" :> 1) @@ ("maxTotalTimeMs" :> MaxTotalTimeMs) @@ ("retryStrategy" :> "exponential") }
ConcParams2 ==
  { ("retryOn" :> "any") @@ ("retryStrategy" :> "custom") @@ ("maxTries" :> MaxTries),
    ("pauseMs" :> MaxPauseMs) @@ ("maxTotalTimeMs" :> MaxTotalTimeMs - 1) @@ ("retryOn" :> "onAppError") }

ConcInit ==
  /\ callers = {1, 2}
  /\ task \in {[c \in Calls |-> IF c = 1 THEN "function" ELSE t] : t \in {"function", "notFunction"}}
  /\ params \in {[c \in Calls |-> IF c = 1 THEN p1 ELSE p2] : p1 \in ConcParams1, p2 \in ConcParams2}
  /\ InitCall

ConcSpec == ConcInit /\ [][Next]_vars

TypeOK ==
  /\ now \in 0 .. ClockCap
  /\ \A c \in Calls :
       /\ pc[c] \in {"idle", "task", "pause", "done"}
       /\ tryIdx[c] \in 0 .. IdxCap
       /\ numTries[c] \in 0 .. IdxCap
       /\ outcome[c].kind \in {"pending", "resolved", "rejected"}
       /\ inFlight[c] \in 0 .. 1

(***************************************************************************)
(* What the caller asked for, read off params without the code's help.     *)
(***************************************************************************)
Given(p, k) == IF Has(p, k) THEN p[k] ELSE 0
TriesLimit(c) == Given(params[c], "maxTries")
TimeLimit(c) == Given(params[c], "maxTotalTimeMs")
FailedRetryably(c) ==
  lastResult[c].kind = "rejected" /\ Retryable(params[c], lastResult[c].value)
FailedTerminally(c) ==
  lastResult[c].kind = "rejected" /\ ~Retryable(params[c], lastResult[c].value)
Succeeded(c) == lastResult[c].kind = "resolved"
\* every attempt that has settled so far asked for a retry
AlwaysSignalsRetry(c) ==
  /\ IsFunction(task[c])
  /\ numTries[c] < IdxCap
  /\ numRetrySignals[c] = numTries[c] - (IF pc[c] = "task" THEN 1 ELSE 0)

(***************************************************************************)
(* C1  Success short-circuits: when the k-th attempt of the task resolves  *)
(* with v, the k-1 earlier ones having asked for a retry, the call is      *)
(* over, it resolved with v, and the task was invoked k times, no more.    *)
(***************************************************************************)
C1_SuccessShortCircuits ==
  \A c \in Calls :
    Succeeded(c) =>
      /\ pc[c] = "done"
      /\ outcome[c] = Resolved(lastResult[c].value)
      /\ numTries[c] = Inc(numRetrySignals[c])

C1_Witness ==
  \E c \in Calls :
    /\ lastResult[c] = Resolved("v0")
    /\ outcome[c] = Resolved("v0")
    /\ numRetrySignals[c] = 2
    /\ numTries[c] = 3

(***************************************************************************)
(* C2  Terminal propagation: when the k-th attempt rejects with an error e *)
(* the caller does not want retried, the call is over, it rejected with e  *)
(* itself, and the task was invoked k times.                               *)
(***************************************************************************)
C2_TerminalPropagation ==
  \A c \in Calls :
    FailedTerminally(c) =>
      /\ pc[c] = "done"
      /\ outcome[c] = Rejected(lastResult[c].value)
      /\ numTries[c] = Inc(numRetrySignals[c])

C2_Witness ==
  \E c \in Calls :
    /\ lastResult[c] = Rejected(AppError)
    /\ outcome[c] = Rejected(AppError)
    /\ TriesLimit(c) = 2
    /\ numRetrySignals[c] = 1
    /\ numTries[c] = 2

(***************************************************************************)
(* C3  Limit by count: with maxTries = N > 0, no time limit and a task     *)
(* that asks for a retry on every attempt, the task is never invoked more  *)
(* than N times, and the call ends only after N invocations, rejected with *)
(* LimitReached.                                                           *)
(***************************************************************************)
C3_LimitByCount ==
  \A c \in Calls :
    (TriesLimit(c) > 0 /\ TimeLimit(c) = 0 /\ AlwaysSignalsRetry(c)) =>
      /\ numTries[c] <= TriesLimit(c)
      /\ pc[c] = "done" =>
           /\ numTries[c] = TriesLimit(c)
           /\ outcome[c] = Rejected(LimitReached)

C3_Witness ==
  \E c \in Calls :
    /\ TriesLimit(c) = MaxTries
    /\ TimeLimit(c) = 0
    /\ AlwaysSignalsRetry(c)
    /\ pc[c] = "done"
    /\ numTries[c] = MaxTries
    /\ outcome[c] = Rejected(LimitReached)

(***************************************************************************)
(* C4  Limit by time, checked before the pause.                            *)
(***************************************************************************)
\* the pause the engine computes after the attempt that has just failed
NextPause(c) == actualPauseMs(params[c], tryIdx[c])

\* a step in which an attempt of call c fails retryably under a time limit
FailsRetryablyUnderTimeLimit(c) ==
  /\ pc[c] = "task" /\ pc'[c] # "task"
  /\ lastResult'[c].kind = "rejected"
  /\ Retryable(params[c], lastResult'[c].value)
  /\ TimeLimit(c) > 0

\* elapsed + pause > T: LimitReached at once, no pause, no further attempt;
\* elapsed + pause <= T: the call suspends for that pause, still pending
CheckedBeforePause(c) ==
  /\ FailsRetryablyUnderTimeLimit(c) =>
       IF (now' - startTimeMs[c]) + NextPause(c) > TimeLimit(c)
         THEN /\ pc'[c] = "done"
              /\ outcome'[c] = Rejected(LimitReached)
              /\ pauses'[c] = pauses[c]
         ELSE /\ pc'[c] = "pause"
              /\ outcome'[c] = Pending
              /\ Len(pauses[c]) < IdxCap => pauses'[c] = Append(pauses[c], NextPause(c))
  /\ pc[c] = "done" => numTries'[c] = numTries[c]

\* a step in which a pause taken under a time limit ends
PauseEndsUnderTimeLimit(c) == pc[c] = "pause" /\ pc'[c] # "pause" /\ TimeLimit(c) > 0

Retries(c) == pc'[c] = "task" /\ numTries'[c] = Inc(numTries[c])

\* C4 as stated: under a time limit T, a retryable failure with
\* elapsed + pause > T rejects with LimitReached at once, and one with
\* elapsed + pause <= T pauses and then retries.
C4_PausesAndRetries ==
  [][\A c \in Calls :
       /\ CheckedBeforePause(c)
       /\ PauseEndsUnderTimeLimit(c) => Retries(c)]_vars

\* C4 as amended: ... pauses and then retries, unless maxTries tries have
\* been made by then, in which case the pause is followed by LimitReached.
C4_PausesAndRetriesWithinMaxTries ==
  [][\A c \in Calls :
       /\ CheckedBeforePause(c)
       /\ PauseEndsUnderTimeLimit(c) =>
            IF TriesLimit(c) <= 0 \/ numTries[c] < TriesLimit(c)
              THEN Retries(c)
              ELSE /\ pc'[c] = "done"
                   /\ outcome'[c] = Rejected(LimitReached)
                   /\ numTries'[c] = numTries[c]]_vars

C4_Witness ==
  \E c \in Calls :
    /\ TimeLimit(c) = MaxTotalTimeMs
    /\ exit[c] = "throw111"
    /\ numTries[c] = 2
    /\ pauses[c] = <<1>>
    /\ (now - startTimeMs[c]) + NextPause(c) > TimeLimit(c)

(***************************************************************************)
(* C5  Exactly one outcome per call.                                       *)
(***************************************************************************)
\* a call has an outcome exactly when it is over, and the outcome it has
\* produced is never replaced by another, nor is the task invoked again
OutcomeWhenDone ==
  \A c \in Calls : (pc[c] = "done") <=> (outcome[c] # Pending)
OutcomeKept ==
  \A c \in Calls :
    pc[c] = "done" => pc'[c] = "done" /\ outcome'[c] = outcome[c] /\ exit'[c] = exit[c]

\* C5 as stated: every call, whatever its configuration, eventually
\* produces an outcome, and never more than one.
C5_AlwaysOneOutcome ==
  /\ []OutcomeWhenDone
  /\ [][OutcomeKept]_vars
  /\ \A c \in Calls : [](c \in callers => <>(pc[c] = "done"))

\* C5 as amended: a call never produces more than one outcome, and it
\* eventually produces one when maxTries > 0 or maxTotalTimeMs > 0 (or the
\* task is not a function).
C5_OneOutcomeUnderALimit ==
  /\ []OutcomeWhenDone
  /\ [][OutcomeKept]_vars
  /\ \A c \in Calls :
       []((c \in callers /\ (~IsFunction(task[c]) \/ TriesLimit(c) > 0 \/ TimeLimit(c) > 0))
            => <>(pc[c] = "done"))

C5_Witness ==
  \E c \in Calls :
    /\ TriesLimit(c) <= 0
    /\ TimeLimit(c) = MaxTotalTimeMs
    /\ numTries[c] >= 3
    /\ exit[c] = "throw111"

(***************************************************************************)
(* C6  A terminal error wins over a limit: when the attempt number         *)
(* maxTries, or an attempt that settles after maxTotalTimeMs has elapsed,  *)
(* rejects with an error e the caller does not want retried, the call      *)
(* rejects with e, through `throw error` and not through a limit.          *)
(***************************************************************************)
OnLastPermittedTry(c) == TriesLimit(c) > 0 /\ numTries[c] = TriesLimit(c)
AfterTimeLimit(c) == TimeLimit(c) > 0 /\ now - startTimeMs[c] > TimeLimit(c)

C6_TerminalErrorWins ==
  \A c \in Calls :
    (FailedTerminally(c) /\ (OnLastPermittedTry(c) \/ AfterTimeLimit(c))) =>
      /\ pc[c] = "done"
      /\ outcome[c] = Rejected(lastResult[c].value)
      /\ exit[c] = "throw96"

C6_Witness ==
  \E c \in Calls :
    /\ lastResult[c] = Rejected(AppError)
    /\ FailedTerminally(c)
    /\ OnLastPermittedTry(c)
    /\ AfterTimeLimit(c)
    /\ numTries[c] = 2
    /\ outcome[c] = Rejected(AppError)

(***************************************************************************)
(* C7  When a limit is reached and the caller passed params.errorOnLimit,  *)
(* the call rejects with that errorOnLimit value.                          *)
(***************************************************************************)
LimitWasReached(c) == exit[c] \in {"throw111", "throw119"}

C7_RejectsWithErrorOnLimit ==
  \A c \in Calls :
    (LimitWasReached(c) /\ Has(params[c], "errorOnLimit")) =>
      outcome[c] = Rejected(params[c]["errorOnLimit"])

TriesExhausted(c) ==
  /\ FailedRetryably(c)
  /\ TriesLimit(c) > 0
  /\ numTries[c] = TriesLimit(c)
TimeExhausted(c) ==
  /\ FailedRetryably(c)
  /\ TimeLimit(c) > 0
  /\ (now - startTimeMs[c]) + NextPause(c) > TimeLimit(c)

\* C9 as stated: the call rejects with LimitReached only if maxTries
\* attempts were made or elapsed + next pause exceeded maxTotalTimeMs, never
\* when the last attempt succeeded or failed terminally.
C9_LimitReachedOnlyForBudget ==
  \A c \in Calls :
    outcome[c] = Rejected(LimitReached) => TriesExhausted(c) \/ TimeExhausted(c)

\* C9 as amended: the call rejects with LimitReached only if a budget was
\* exhausted as above, or if the task itself rejected with the LimitReached
\* marker (as a nested retry() does) and retryOn returned false for it; the
\* engine's own two throws of LimitReached happen only for a budget.
C9_LimitReachedForBudgetOrFromTask ==
  \A c \in Calls :
    /\ outcome[c] = Rejected(LimitReached) =>
         \/ exit[c] = "throw119" /\ TriesExhausted(c)
         \/ exit[c] = "throw111" /\ TimeExhausted(c)
         \/ exit[c] = "throw96" /\ FailedTerminally(c) /\ lastResult[c] = Rejected(LimitReached)
    /\ exit[c] = "throw119" => TriesExhausted(c) /\ outcome[c] = Rejected(LimitReached)
    /\ exit[c] = "throw111" => TimeExhausted(c) /\ outcome[c] = Rejected(LimitReached)

C9_Witness ==
  \E c \in Calls :
    /\ exit[c] = "throw111"
    /\ outcome[c] = Rejected(LimitReached)
    /\ TimeLimit(c) = MaxTotalTimeMs
    /\ (now - startTimeMs[c]) + NextPause(c) = TimeLimit(c) + 1
    /\ numTries[c] = 2

(***************************************************************************)
(* C10  Invalid task: a call whose task is not a function is over at once, *)
(* rejected with the configuration error, without any attempt, without     *)
(* reading the clock and without starting a timer.                         *)
(***************************************************************************)
C10_InvalidTaskFailsFast ==
  \A c \in Calls :
    (~IsFunction(task[c]) /\ pc[c] # "idle") =>
      /\ pc[c] = "done"
      /\ outcome[c] = Rejected(TaskNotFunction)
      /\ exit[c] = "throw78"
      /\ numTries[c] = 0
      /\ ~clockRead[c]
      /\ pauses[c] = << >>

C10_Witness ==
  \E c \in Calls :
    /\ ~IsFunction(task[c])
    /\ outcome[c] = Rejected(TaskNotFunction)
    /\ Has(params[c], "maxTotalTimeMs")

(***************************************************************************)
(* The strategy the caller asked for, and the pauses taken so far.         *)
(***************************************************************************)
StrategyGiven(c) ==
  IF Has(params[c], "retryStrategy") THEN params[c]["retryStrategy"] ELSE "linear"
PauseGiven(c) == Given(params[c], "pauseMs")
PauseIndices(c) == 1 .. Len(pauses[c])

CustomPause(n) == IF CustomStrategy(n) > 0 THEN CustomStrategy(n) ELSE 0

\* a step in which the n-th attempt of call c fails retryably
FailsRetryably(c) ==
  /\ pc[c] = "task" /\ pc'[c] # "task"
  /\ lastResult'[c].kind = "rejected"
  /\ Retryable(params[c], lastResult'[c].value)

C12_CustomStrategy ==
  [][\A c \in Calls :
       (StrategyGiven(c) = "custom" /\ numTries[c] < IdxCap /\ FailsRetryably(c)) =>
         IF TimeLimit(c) > 0
            /\ (now' - startTimeMs[c]) + CustomPause(numTries[c]) > TimeLimit(c)
           THEN pc'[c] = "done" /\ outcome'[c] = Rejected(LimitReached)
           ELSE /\ pc'[c] = "pause"
                /\ pauses'[c] = Append(pauses[c], CustomPause(numTries[c]))]_vars

C12_Witness ==
  \E c \in Calls :
    /\ StrategyGiven(c) = "custom"
    /\ PauseGiven(c) = MaxPauseMs
    /\ TimeLimit(c) = MaxTotalTimeMs
    /\ pauses[c] = <<1, 0, 0>>
    /\ CustomStrategy(3) < 0
    /\ numTries[c] = 4
    /\ exit[c] = "throw111"

(***************************************************************************)
(* C13  Linear strategy and pause placement: with the linear (default)     *)
(* strategy every pause is pauseMs; there is one pause before every        *)
(* attempt but the first, and none after the attempt that succeeds, so a   *)
(* task that fails retryably r times and then succeeds has seen r pauses   *)
(* of pauseMs each and r + 1 invocations.                                  *)
(***************************************************************************)
C13_LinearPauses ==
  \A c \in Calls :
    (StrategyGiven(c) = "linear" /\ PauseGiven(c) >= 0 /\ numTries[c] < IdxCap) =>
      /\ \A k \in PauseIndices(c) : pauses[c][k] = PauseGiven(c)
      /\ pc[c] = "task" => Len(pauses[c]) = numTries[c] - 1
      /\ Succeeded(c) =>
           /\ Len(pauses[c]) = numRetrySignals[c]
           /\ numTries[c] = numRetrySignals[c] + 1

C13_Witness ==
  \E c \in Calls :
    /\ ~Has(params[c], "retryStrategy")
    /\ PauseGiven(c) = MaxPauseMs
    /\ Succeeded(c)
    /\ numRetrySignals[c] = 2
    /\ pauses[c] = <<MaxPauseMs, MaxPauseMs>>
    /\ numTries[c] = 3

(***************************************************************************)
(* C14  Defaults: a call without params and a call with every default      *)
(* spelled out, whose tasks have behaved alike so far (same settlements,   *)
(* same timers fired), have made the same invocations, asked for the same  *)
(* pauses and have the same outcome.                                       *)
(***************************************************************************)
\* what has happened to call c from outside: it was made, its timers fired,
\* its task's attempts settled
Inputs(c) == <<pc[c] = "idle", tryIdx[c], numRetrySignals[c], lastResult[c], task[c]>>
\* what call c has done
Outputs(c) == <<pc[c], numTries[c], pauses[c], outcome[c], exit[c]>>

C14_DefaultsAreExplicitDefaults ==
  (/\ params[1] = NoParams
   /\ params[2] = ExplicitDefaults
   /\ tryIdx[1] < IdxCap
   /\ Inputs(1) = Inputs(2)) => Outputs(1) = Outputs(2)

C14_Witness ==
  /\ params[1] = NoParams
  /\ params[2] = ExplicitDefaults
  /\ Inputs(1) = Inputs(2)
  /\ lastResult[1] = Resolved("v0")
  /\ numRetrySignals[1] = 2
  /\ Outputs(1) = Outputs(2)
  /\ outcome[2] = Resolved("v0")
  /\ pauses[2] = <<0, 0>>

(***************************************************************************)
(* C15  retryOn decides every failure: with a retryOn that returns true    *)
(* for every error the call never rejects with a task error; it ends only  *)
(* with the task's value or with the engine's LimitReached, and every      *)
(* failed attempt is followed by a pause and another attempt unless a      *)
(* limit ends the call.                                                    *)
(***************************************************************************)
RetriesOnAnyError(c) ==
  /\ IsFunction(task[c])
  /\ Has(params[c], "retryOn")
  /\ params[c]["retryOn"] = "any"

C15_RetryOnAnyError ==
  \A c \in Calls :
    RetriesOnAnyError(c) =>
      /\ pc[c] = "done" =>
           \/ exit[c] = "return93" /\ outcome[c] = lastResult[c] /\ Succeeded(c)
           \/ LimitWasReached(c) /\ outcome[c] = Rejected(LimitReached)
      /\ lastResult[c].kind = "rejected" =>
           \/ pc[c] \in {"pause", "task"}
           \/ pc[c] = "done" /\ LimitWasReached(c)

C15_Witness ==
  \E c \in Calls :
    /\ RetriesOnAnyError(c)
    /\ lastResult[c] = Rejected(AppError)
    /\ numTries[c] = 3
    /\ pc[c] = "task"

(***************************************************************************)
(* C16  Attempts are strictly sequential within one call: an attempt       *)
(* begins only when the call is made or when the timer of the pause after  *)
(* the previous attempt fires, not before that pause is over, with no      *)
(* other attempt of the call in flight; so at most one is ever in flight.  *)
(***************************************************************************)
AttemptBegins(c) == numTries'[c] > numTries[c] \/ inFlight'[c] > inFlight[c]

C16_SequentialAttempts ==
  [][\A c \in Calls :
       /\ inFlight'[c] <= 1
       /\ AttemptBegins(c) =>
            /\ inFlight[c] = 0
            /\ pc[c] \in {"idle", "pause"}
            /\ pc[c] = "pause" => now' >= timerDue[c]
            /\ inFlight'[c] = 1]_vars

C16_Witness ==
  \E c \in Calls :
    /\ numTries[c] = 3
    /\ inFlight[c] = 1
    /\ pc[c] = "task"
    /\ pauses[c] = <<MaxPauseMs, MaxPauseMs>>
    /\ now - startTimeMs[c] >= 2 * MaxPauseMs

(***************************************************************************)
(* C17  Concurrent calls do not interfere: when two calls with different   *)
(* params run interleaved, a step of one call leaves everything the other  *)
(* call owns as it was, and each call's invocations, pauses and outcome    *)
(* are those its own params, its own task's settlements and its own start  *)
(* time determine, as when it runs alone.                                  *)
(***************************************************************************)
\* everything call c owns
Local(c) ==
  <<pc[c], task[c], params[c], tryIdx[c], startTimeMs[c], timerDue[c], outcome[c],
    exit[c], numTries[c], numRetrySignals[c], lastResult[c], pauses[c], clockRead[c],
    inFlight[c]>>

\* the k-th pause call c's own params ask for
OwnPause(c, k) ==
  IF StrategyGiven(c) = "linear" THEN Max(0, PauseGiven(c))
  ELSE IF StrategyGiven(c) = "exponential" THEN Max(0, PauseGiven(c)) * 2 ^ (k - 1)
  ELSE CustomPause(k)

AsAlone(c) ==
  /\ \A k \in PauseIndices(c) : pauses[c][k] = OwnPause(c, k)
  /\ (pc[c] = "task" /\ numTries[c] < IdxCap) => numTries[c] = Len(pauses[c]) + 1
  /\ (pc[c] = "pause" /\ TimeLimit(c) > 0) => timerDue[c] - startTimeMs[c] <= TimeLimit(c)
  /\ (Succeeded(c) \/ FailedTerminally(c)) =>
       /\ pc[c] = "done"
       /\ outcome[c] = lastResult[c]
       /\ numTries[c] = Inc(numRetrySignals[c])
  /\ exit[c] = "throw119" =>
       /\ TriesExhausted(c)
       /\ outcome[c] = Rejected(LimitReached)
  /\ exit[c] = "throw111" =>
       /\ FailedRetryably(c)
       /\ TimeLimit(c) > 0
       /\ (now - startTimeMs[c]) + OwnPause(c, Len(pauses[c]) + 1) > TimeLimit(c)
       /\ outcome[c] = Rejected(LimitReached)

OnlyOneCallMoves ==
  \A c1, c2 \in Calls :
    (Local(c1)' # Local(c1) /\ Local(c2)' # Local(c2)) => c1 = c2

C17_ConcurrentCallsIndependent ==
  /\ [](\A c \in Calls : AsAlone(c))
  /\ [][OnlyOneCallMoves]_vars

\* both calls have been through retries while the other was under way, and
\* ended differently
C17_Witness ==
  /\ params[1] # params[2]
  /\ exit[1] = "throw111"
  /\ pauses[1] = <<1, 2>>
  /\ exit[2] = "throw119"
  /\ numTries[2] = MaxTries
  /\ startTimeMs[2] > startTimeMs[1]
  /\ startTimeMs[2] < now

(***************************************************************************)
(* C18  Time limit stops retrying: with maxTotalTimeMs = T > 0, when an    *)
(* attempt fails retryably and more than T ms have elapsed since the first *)
(* try started, the call rejects with LimitReached in that very step,      *)
(* whatever the strategy and the pause, and a call that is done never      *)
(* invokes the task again.                                                 *)
(***************************************************************************)
C18_TimeLimitStopsRetrying ==
  [][\A c \in Calls :
       /\ (FailsRetryablyUnderTimeLimit(c) /\ now' - startTimeMs[c] > TimeLimit(c)) =>
            /\ pc'[c] = "done"
            /\ exit'[c] = "throw111"
            /\ outcome'[c] = Rejected(LimitReached)
            /\ inFlight'[c] = 0
       /\ pc[c] = "done" =>
            /\ pc'[c] = "done"
            /\ numTries'[c] = numTries[c]
            /\ outcome'[c] = outcome[c]]_vars

\* the third attempt fails past the limit although no pause was asked for
C18_Witness ==
  \E c \in Calls :
    /\ TimeLimit(c) > 0
    /\ exit[c] = "throw111"
    /\ outcome[c] = Rejected(LimitReached)
    /\ now - startTimeMs[c] > TimeLimit(c)
    /\ NextPause(c) = 0
    /\ numTries[c] = 3

(***************************************************************************)
(* C19  Wall-time bound under the time limit, with maxTotalTimeMs = T > 0  *)
(* and a task that always signals retry.                                   *)
(***************************************************************************)
\* when the timer of the last pause was due (the start, if there was none)
LastPauseDue(c) == IF pauses[c] = <<>> THEN startTimeMs[c] ELSE timerDue[c]
RejectedOnLimitUnderTimeLimit(c) ==
  /\ LimitWasReached(c)
  /\ TimeLimit(c) > 0
  /\ AlwaysSignalsRetry(c)

\* C19 as stated: the elapsed time at which retry() rejects with
\* LimitReached is at most T plus the execution time of one task attempt
\* (no attempt takes longer than MaxTaskMs).
C19_WallTimeWithinLimitPlusOneAttempt ==
  \A c \in Calls :
    RejectedOnLimitUnderTimeLimit(c) =>
      now - startTimeMs[c] <= TimeLimit(c) + MaxTaskMs

\* C19 amended: the last pause was due no later than T after the start, so
\* the elapsed time at which retry() rejects with LimitReached is at most T
\* plus the time by which the timer of the last pause fired late plus the
\* execution time of the last attempt.
C19_WallTimeWithinLimitPlusOvershootAndAttempt ==
  \A c \in Calls :
    RejectedOnLimitUnderTimeLimit(c) =>
      /\ LastPauseDue(c) - startTimeMs[c] <= TimeLimit(c)
      /\ now - LastPauseDue(c) <= MaxJitterMs + MaxTaskMs
      /\ now - startTimeMs[c] <= TimeLimit(c) + MaxJitterMs + MaxTaskMs

\* the last pause was due exactly at T, its timer fired late and the attempt
\* after it took time
C19_Witness ==
  \E c \in Calls :
    /\ RejectedOnLimitUnderTimeLimit(c)
    /\ pauses[c] # <<>>
    /\ timerDue[c] - startTimeMs[c] = TimeLimit(c)
    /\ now - startTimeMs[c] = TimeLimit(c) + MaxJitterMs + MaxTaskMs

(***************************************************************************)
(* C20  Clamping: a negative or absent pauseMs, maxTries or maxTotalTimeMs *)
(* is treated as 0 and never rejects the call: without a positive maxTries *)
(* the call never ends on the tries limit, without a positive              *)
(* maxTotalTimeMs never on the time limit, without a positive pauseMs the  *)
(* linear and exponential pauses are 0, and no pause is ever negative.     *)
(***************************************************************************)
C20_Clamping ==
  \A c \in Calls :
    /\ IsFunction(task[c]) => exit[c] # "throw78"
    /\ TriesLimit(c) <= 0 => exit[c] # "throw119"
    /\ TimeLimit(c) <= 0 => exit[c] # "throw111"
    /\ \A k \in PauseIndices(c) : pauses[c][k] >= 0
    /\ (PauseGiven(c) <= 0 /\ StrategyGiven(c) # "custom") =>
         \A k \in PauseIndices(c) : pauses[c][k] = 0
    /\ pc[c] = "pause" => timerDue[c] >= now

\* all three negative: more attempts than any limit of the model allows,
\* with pauses of 0 between them, and the call is still trying
C20_Witness ==
  \E c \in Calls :
    /\ Has(params[c], "maxTries") /\ params[c]["maxTries"] < 0
    /\ Has(params[c], "maxTotalTimeMs") /\ params[c]["maxTotalTimeMs"] < 0
    /\ Has(params[c], "pauseMs") /\ params[c]["pauseMs"] < 0
    /\ numTries[c] > MaxTries
    /\ Len(pauses[c]) >= MaxTries
    /\ \A k \in PauseIndices(c) : pauses[c][k] = 0
    /\ now - startTimeMs[c] > MaxTotalTimeMs
    /\ pc[c] = "task"

(***************************************************************************)
(* C21  Zero means unlimited: with maxTries = 0 (or not given) the call    *)
(* never ends on the tries limit, with maxTotalTimeMs = 0 (or not given)   *)
(* never on the time limit; with both 0 the call ends only with the        *)
(* success or the terminal error of its task, and after every retryable    *)
(* failure it pauses and invokes the task again.                           *)
(***************************************************************************)
NoTriesLimit(c) == TriesLimit(c) = 0
NoTimeLimit(c) == TimeLimit(c) = 0
Unlimited(c) == NoTriesLimit(c) /\ NoTimeLimit(c)

SettlesPastTimeLimit(c) ==
  /\ pc[c] = "task" /\ pc'[c] # "task"
  /\ TimeLimit(c) > 0
  /\ now' - startTimeMs[c] > TimeLimit(c)

C22_TimeCheckedOnlyBetweenAttempts ==
  [][\A c \in Calls :
       /\ (pc[c] = "task" /\ pc'[c] # "task") =>
            /\ lastResult'[c].kind \in {"resolved", "rejected"}
            /\ inFlight[c] = 1 /\ inFlight'[c] = 0
       /\ (SettlesPastTimeLimit(c) /\ lastResult'[c].kind = "resolved") =>
            /\ pc'[c] = "done"
            /\ exit'[c] = "return93"
            /\ outcome'[c] = lastResult'[c]
       /\ (SettlesPastTimeLimit(c) /\ lastResult'[c].kind = "rejected"
             /\ ~Retryable(params[c], lastResult'[c].value)) =>
            /\ pc'[c] = "done"
            /\ exit'[c] = "throw96"
            /\ outcome'[c] = lastResult'[c]]_vars

\* the second attempt began within the limit and resolved after it
C22_Witness ==
  \E c \in Calls :
    /\ TimeLimit(c) > 0
    /\ Len(pauses[c]) = 1
    /\ timerDue[c] - startTimeMs[c] <= TimeLimit(c)
    /\ now - startTimeMs[c] > TimeLimit(c)
    /\ numTries[c] = 2
    /\ Succeeded(c)
    /\ outcome[c] = lastResult[c]

(***************************************************************************)
(* C23  Invocation count under the time limit: with the linear strategy,   *)
(* pauseMs = P > 0, maxTotalTimeMs = T > 0, no maxTries, attempts that     *)
(* take no time, timers that fire exactly when due and a task that always  *)
(* signals retry, the call ends with LimitReached after exactly            *)
(* floor(T / P) + 1 invocations of the task.                               *)
(***************************************************************************)
\* all the time that has passed since the start was spent in the pauses:
\* no attempt took time and no timer fired late
OnlyPausesTookTime(c) ==
  now - startTimeMs[c] = Len(pauses[c]) * PauseGiven(c)

LinearUnderTimeLimitOnly(c) ==
  /\ StrategyGiven(c) = "linear"
  /\ PauseGiven(c) > 0
  /\ TimeLimit(c) > 0
  /\ NoTriesLimit(c)

C23_InvocationCountUnderTimeLimit ==
  \A c \in Calls :
    (/\ LinearUnderTimeLimitOnly(c)
     /\ AlwaysSignalsRetry(c)
     /\ OnlyPausesTookTime(c)) =>
      /\ numTries[c] <= (TimeLimit(c) \div PauseGiven(c)) + 1
      /\ pc[c] = "done" =>
           /\ exit[c] = "throw111"
           /\ outcome[c] = Rejected(LimitReached)
           /\ numTries[c] = (TimeLimit(c) \div PauseGiven(c)) + 1

\* T = MaxTotalTimeMs and P = MaxPauseMs, where P does not divide T: one
\* pause fits, the second would end after T
C23_Witness ==
  \E c \in Calls :
    /\ LinearUnderTimeLimitOnly(c)
    /\ AlwaysSignalsRetry(c)
    /\ OnlyPausesTookTime(c)
    /\ TimeLimit(c) = MaxTotalTimeMs
    /\ PauseGiven(c) = MaxPauseMs
    /\ exit[c] = "throw111"
    /\ numTries[c] = (MaxTotalTimeMs \div MaxPauseMs) + 1
    /\ pauses[c] # <<>>

(***************************************************************************)
(* C24  maxTries is a hard cap in every run: with maxTries = N > 0, for    *)
(* any task outcomes, strategy and time limit, a call never invokes the    *)
(* task more than N times, and when every attempt settles and every timer  *)
(* fires the call settles, having made at most N invocations.              *)
(***************************************************************************)
C24_MaxTriesIsHardCap ==
  /\ [](\A c \in Calls : TriesLimit(c) > 0 => numTries[c] <= TriesLimit(c))
  /\ \A c \in Calls :
       (c \in callers /\ TriesLimit(c) > 0) ~>
         (pc[c] = "done" /\ outcome[c] # Pending /\ numTries[c] <= TriesLimit(c))

\* the last permitted try of a call with a time limit and growing pauses
\* succeeds
C24_Witness ==
  \E c \in Calls :
    /\ TriesLimit(c) = MaxTries
    /\ TimeLimit(c) > 0
    /\ StrategyGiven(c) = "exponential"
    /\ PauseGiven(c) > 0
    /\ numTries[c] = MaxTries
    /\ numRetrySignals[c] = MaxTries - 1
    /\ pc[c] = "done"
    /\ Succeeded(c)

(***************************************************************************)
(* C25  Pause after the last permitted try: with maxTries = N > 0 the      *)
(* rejection on the tries limit comes only when the timer of a pause       *)
(* fires, after N attempts and N pauses (not N - 1); without a time limit  *)
(* a call whose task always signals retry has no other way to end.  With a *)
(* time limit the N-th attempt can end in LimitReached through the time    *)
(* check, and then only N - 1 pauses were waited.                          *)
(***************************************************************************)
RejectsOnTriesLimit(c) == exit[c] # "throw119" /\ exit'[c] = "throw119"
LastTryEndsOnTimeCheck(c) ==
  /\ TriesLimit(c) > 0
  /\ numTries[c] = TriesLimit(c)
  /\ exit[c] = "throw111"

C25_PauseAfterLastPermittedTry ==
  /\ [](\A c \in Calls :
          /\ exit[c] = "throw119" =>
               /\ numTries[c] = TriesLimit(c)
               /\ numRetrySignals[c] = TriesLimit(c)
               /\ Len(pauses[c]) = TriesLimit(c)
               /\ now >= timerDue[c]
          /\ (TriesLimit(c) > 0 /\ NoTimeLimit(c) /\ AlwaysSignalsRetry(c)
                /\ pc[c] = "done") =>
               /\ exit[c] = "throw119"
               /\ outcome[c] = Rejected(LimitReached)
          /\ LastTryEndsOnTimeCheck(c) =>
               /\ TimeLimit(c) > 0
               /\ Len(pauses[c]) = TriesLimit(c) - 1)
  /\ [][\A c \in Calls :
          RejectsOnTriesLimit(c) =>
            /\ pc[c] = "pause"
            /\ Len(pauses[c]) = TriesLimit(c)
            /\ pauses'[c] = pauses[c]
            /\ now' >= timerDue[c]]_vars

\* no time limit: MaxTries attempts, MaxTries pauses of MaxPauseMs, and
\* the rejection no sooner than the last pause was over
C25_Witness ==
  \E c \in Calls :
    /\ TriesLimit(c) = MaxTries
    /\ NoTimeLimit(c)
    /\ exit[c] = "throw119"
    /\ outcome[c] = Rejected(LimitReached)
    /\ numTries[c] = MaxTries
    /\ pauses[c] = [k \in 1 .. MaxTries |-> MaxPauseMs]
    /\ timerDue[c] - startTimeMs[c] >= MaxPauseMs
    /\ now >= timerDue[c]

====
